---- MODULE Spec2Model ----
(***************************************************************************)
(* Model of resumep.py: the "Generate Analysis" handler of the Gemini      *)
(* Resume Analyzer.  Uploaded PDFs are read one by one, the texts that     *)
(* came out non-empty are joined into one prompt, the Gemini model is      *)
(* called, its reply is shown as Markdown and then converted, line by      *)
(* line, into a pandas DataFrame.                                          *)
(*                                                                         *)
(* A Python str is a sequence of one-character strings.                    *)
(***************************************************************************)
EXTENDS Integers, Sequences, FiniteSets, TLC

VARIABLES
    uploaded_files,     \* st.file_uploader(...): the uploaded PDFs, in order
    gemini,             \* what model.generate_content will do in this run
    pc,                 \* position of the script in the handler
    idx,                \* index of the next pdf of `for pdf in uploaded_files`
    all_resume_texts,   \* the list built by the extraction loop
    combined_text,      \* generate_table_from_resumes: the joined texts
    prompt,             \* generate_table_from_resumes: the prompt sent
    generated_content,  \* the string generate_table_from_resumes returned
    df,                 \* the DataFrame of the conversion, if one was built
    ui,                 \* what the script has put on the page, in order
    calls               \* calls made to the collaborators, in order

vars == <<uploaded_files, gemini, pc, idx, all_resume_texts, combined_text,
          prompt, generated_content, df, ui, calls>>

-----------------------------------------------------------------------------
(* Bounds of the model *)

MaxFiles == 3
MaxPages == 1
MaxLines == 4

-----------------------------------------------------------------------------
(* Python str operations *)

NL == "\n"
PIPE == "|"

\* str.strip() without argument removes these (the ones of the alphabet used)
Whitespace == {" ", NL}

RECURSIVE lstrip(_, _)
lstrip(s, chars) ==
    IF s # <<>> /\ Head(s) \in chars THEN lstrip(Tail(s), chars) ELSE s

RECURSIVE rstrip(_, _)
rstrip(s, chars) ==
    IF s # <<>> /\ s[Len(s)] \in chars
    THEN rstrip(SubSeq(s, 1, Len(s) - 1), chars)
    ELSE s

\* s.strip(chars): every leading and every trailing character of `chars`
py_strip(s, chars) == rstrip(lstrip(s, chars), chars)

\* s.split(c) for a one-character c: always at least one piece
RECURSIVE py_split(_, _)
py_split(s, c) ==
    IF \A i \in 1..Len(s) : s[i] # c
    THEN <<s>>
    ELSE LET i == CHOOSE k \in 1..Len(s) :
                      s[k] = c /\ \A j \in 1..(k - 1) : s[j] # c
         IN  <<SubSeq(s, 1, i - 1)>> \o py_split(SubSeq(s, i + 1, Len(s)), c)

\* sep.join(parts)
RECURSIVE py_join(_, _)
py_join(sep, parts) ==
    IF parts = <<>> THEN <<>>
    ELSE IF Len(parts) = 1 THEN parts[1]
    ELSE Head(parts) \o sep \o py_join(sep, Tail(parts))

\* "".join of a list of strings, as `text += ...` builds it
RECURSIVE concat(_)
concat(parts) == IF parts = <<>> THEN <<>> ELSE Head(parts) \o concat(Tail(parts))

\* all sequences over S of length at most n
SeqUpTo(S, n) == UNION {[1..k -> S] : k \in 0..n}

-----------------------------------------------------------------------------
(* extract_text_from_pdf *)

\* text a page of a PDF can yield
PageTexts == {<<>>, <<"x">>}

\* An uploaded PDF: PyPDF2 either fails on it or gives its pages
PdfFiles ==
    {[readable |-> FALSE, pages |-> <<>>]}
    \cup {[readable |-> TRUE, pages |-> p] : p \in SeqUpTo(PageTexts, MaxPages)}

\* the None of Python, for a value that is otherwise a str
NoneText == [none |-> TRUE, text |-> <<>>]
Text(t) == [none |-> FALSE, text |-> t]

extract_text_from_pdf(pdf_file) ==
    IF pdf_file.readable THEN Text(concat(pdf_file.pages)) ELSE NoneText

\* `if text:` holds for a str that is not empty
truthy_not_none(text) == ~text.none
truthy(text) == ~text.none /\ text.text # <<>>

-----------------------------------------------------------------------------
(* generate_table_from_resumes *)

SEPARATOR ==
    <<NL, NL, "-", "-", "-", " ", "N", "E", "W", " ", "R", "E", "S", "U", "M",
      "E", " ", "-", "-", "-", NL, NL>>

NO_TEXT == <<"N", "o", " ", "r", "e", "s", "u", "m", "e", " ", "t", "e", "x", "t">>
API_ERROR == <<"A", "P", "I", " ", "e", "r", "r", "o", "r", ":", " ", "e">>

\* the f-string around combined_text, its instruction text abridged
PROMPT_HEAD == <<NL, "R", "e", "s", "u", "m", "e", " ", "T", "e", "x", "t", "s", ":", NL>>
PROMPT_TAIL == <<NL>>

join_resumes(resume_texts) == py_join(SEPARATOR, resume_texts)

build_prompt(text) == PROMPT_HEAD \o text \o PROMPT_TAIL

-----------------------------------------------------------------------------
(* The conversion of the reply into a DataFrame *)

\* the value pandas puts in a cell a short row does not reach
MISSING == <<"None">>

NoFrame == [built |-> FALSE, columns |-> <<>>, rows |-> <<>>]
Frame(columns, rows) == [built |-> TRUE, columns |-> columns, rows |-> rows]

\* generated_content.strip().split('\n')
content_lines(content) == py_split(py_strip(content, Whitespace), NL)

\* [c.strip() for c in line.strip('|').split('|')]
line_cells(line) ==
    LET parts == py_split(py_strip(line, {PIPE}), PIPE)
    IN  [i \in 1..Len(parts) |-> py_strip(parts[i], Whitespace)]

\* the rows collected by `for line in lines[2:]`
data_rows(lines) ==
    [k \in 1..(IF Len(lines) > 2 THEN Len(lines) - 2 ELSE 0) |-> line_cells(lines[k + 2])]

RECURSIVE max_len(_)
max_len(rows) ==
    IF rows = <<>> THEN 0
    ELSE LET m == max_len(Tail(rows))
         IN  IF Len(Head(rows)) > m THEN Len(Head(rows)) ELSE m

\* pd.DataFrame(data, columns=header) for a list of lists: short rows are
\* filled up to the longest row, and the call raises ValueError when the
\* longest row has not exactly len(columns) cells; no rows at all is fine
DataFrame(data, columns) ==
    IF data = <<>> THEN Frame(columns, <<>>)
    ELSE IF max_len(data) # Len(columns) THEN NoFrame
    ELSE Frame(columns,
               [r \in 1..Len(data) |->
                   [c \in 1..Len(columns) |->
                       IF c <= Len(data[r]) THEN data[r][c] ELSE MISSING]])

\* the body of the try block: NoFrame stands for the exception
convert_table(content) ==
    LET lines == content_lines(content)
    IN  DataFrame(data_rows(lines), line_cells(lines[1]))

-----------------------------------------------------------------------------
(* Replies of the model *)

L_HEADER == <<"|", " ", "a", " ", "|", " ", "b", " ", "|">>
L_SEPARATOR == <<"|", "-", "|", "-", "|">>
L_ROW == <<"|", " ", "c", " ", "|", " ", "d", " ", "|">>
L_SHORT == <<"|", " ", "c", " ", "|">>
L_LONG == <<"|", " ", "c", " ", "|", " ", "d", " ", "|", " ", "e", " ", "|">>
L_EMPTYCELL == <<"|", "|", " ", "d", " ", "|">>
L_TRAILING == <<"|", " ", "c", " ", "|", " ", "d", " ", "|", " ">>
L_BLANK == <<>>
L_PROSE == <<"c", ",", " ", "d">>

ReplyLines ==
    {L_HEADER, L_SEPARATOR, L_ROW, L_SHORT, L_LONG, L_EMPTYCELL, L_TRAILING,
     L_BLANK, L_PROSE}

Reply(lines) == py_join(<<NL>>, lines)

\* replies of up to MaxLines lines
TableReplies == {Reply(ls) : ls \in SeqUpTo(ReplyLines, MaxLines) \ {<<>>}}

\* the replies used when the uploads vary
PipelineReplies ==
    {Reply(<<L_HEADER, L_SEPARATOR, L_ROW>>),
     Reply(<<L_HEADER, L_SEPARATOR, L_SHORT>>),
     Reply(<<L_PROSE>>)}

Outcomes(replies) ==
    {[raises |-> TRUE, text |-> <<>>]}
    \cup {[raises |-> FALSE, text |-> r] : r \in replies}

\* the uploads used when the replies vary
Unreadable == [readable |-> FALSE, pages |-> <<>>]
OnePage == [readable |-> TRUE, pages |-> << <<"x">> >>]
TableUploads == {<<>>, <<Unreadable>>, <<OnePage>>, <<Unreadable, OnePage>>}

-----------------------------------------------------------------------------
(* The page *)

Shown(kind, file, body) == [kind |-> kind, file |-> file, body |-> body]

-----------------------------------------------------------------------------
(* The handler *)

InitRun ==
    /\ pc = "awaiting"
    /\ idx = 1
    /\ all_resume_texts = <<>>
    /\ combined_text = <<>>
    /\ prompt = <<>>
    /\ generated_content = <<>>
    /\ df = NoFrame
    /\ ui = <<>>
    /\ calls = <<>>

Init ==
    /\ uploaded_files \in SeqUpTo(PdfFiles, MaxFiles)
    /\ gemini \in Outcomes(PipelineReplies)
    /\ InitRun

InitTable ==
    /\ uploaded_files \in TableUploads
    /\ gemini \in Outcomes(TableReplies)
    /\ InitRun

\* `if uploaded_files:` with the button pressed, else the hint to upload
Start ==
    /\ pc = "awaiting"
    /\ IF uploaded_files # <<>>
       THEN /\ pc' = "extract"
            /\ idx' = 1
            /\ all_resume_texts' = <<>>
            /\ ui' = ui
       ELSE /\ pc' = "done"
            /\ ui' = Append(ui, Shown("info_upload", 0, <<>>))
            /\ UNCHANGED <<idx, all_resume_texts>>
    /\ UNCHANGED <<uploaded_files, gemini, combined_text, prompt,
                   generated_content, df, calls>>

\* what one pass of the loop body puts on the page
extract_messages(i, text) ==
    <<Shown("info_processing", i, <<>>)>>
    \o (IF text.none THEN <<Shown("error_reading", i, <<>>)>> ELSE <<>>)
    \o (IF truthy(text) THEN <<>> ELSE <<Shown("warning_skipping", i, <<>>)>>)

\* a loop body that gives up on the batch at the first file without text
ExtractFileAbort ==
    /\ pc = "extract"
    /\ idx <= Len(uploaded_files)
    /\ LET text == extract_text_from_pdf(uploaded_files[idx])
       IN  /\ all_resume_texts' =
                 IF truthy(text) THEN Append(all_resume_texts, text.text)
                 ELSE all_resume_texts
           /\ ui' = ui \o extract_messages(idx, text)
           /\ idx' = IF truthy(text) THEN idx + 1 ELSE Len(uploaded_files) + 1
    /\ calls' = Append(calls, "extract")
    /\ UNCHANGED <<uploaded_files, gemini, pc, combined_text, prompt,
                   generated_content, df>>

\* one pass of `for pdf in uploaded_files`
ExtractFile ==
    /\ pc = "extract"
    /\ idx <= Len(uploaded_files)
    /\ LET text == extract_text_from_pdf(uploaded_files[idx])
       IN  /\ all_resume_texts' =
                 IF truthy(text) THEN Append(all_resume_texts, text.text)
                 ELSE all_resume_texts
           /\ ui' = ui \o extract_messages(idx, text)
    /\ idx' = idx + 1
    /\ calls' = Append(calls, "extract")
    /\ UNCHANGED <<uploaded_files, gemini, pc, combined_text, prompt,
                   generated_content, df>>

\* the loop is over: `if all_resume_texts:`, which has no else branch
LoopEnd ==
    /\ pc = "extract"
    /\ idx > Len(uploaded_files)
    /\ IF all_resume_texts # <<>>
       THEN /\ pc' = "generate"
            /\ ui' = Append(ui, Shown("success", 0, <<>>))
       ELSE /\ pc' = "done"
            /\ ui' = ui
    /\ UNCHANGED <<uploaded_files, gemini, idx, all_resume_texts, combined_text,
                   prompt, generated_content, df, calls>>

\* generate_table_from_resumes up to the prompt
BuildPrompt ==
    /\ pc = "generate"
    /\ IF all_resume_texts = <<>>
       THEN /\ generated_content' = NO_TEXT
            /\ pc' = "display"
            /\ UNCHANGED <<combined_text, prompt, calls>>
       ELSE /\ combined_text' = join_resumes(all_resume_texts)
            /\ prompt' = build_prompt(combined_text')
            /\ calls' = Append(calls, "prompt")
            /\ pc' = "call"
            /\ UNCHANGED generated_content
    /\ UNCHANGED <<uploaded_files, gemini, idx, all_resume_texts, df, ui>>

\* a call that is made again when the first one raised
CallModelRetry ==
    /\ pc = "call"
    /\ calls' = IF gemini.raises THEN calls \o <<"llm", "llm">> ELSE Append(calls, "llm")
    /\ generated_content' = IF gemini.raises THEN API_ERROR ELSE gemini.text
    /\ pc' = "display"
    /\ UNCHANGED <<uploaded_files, gemini, idx, all_resume_texts, combined_text,
                   prompt, df, ui>>

\* model.generate_content(prompt) inside its try/except
CallModel ==
    /\ pc = "call"
    /\ calls' = Append(calls, "llm")
    /\ generated_content' = IF gemini.raises THEN API_ERROR ELSE gemini.text
    /\ pc' = "display"
    /\ UNCHANGED <<uploaded_files, gemini, idx, all_resume_texts, combined_text,
                   prompt, df, ui>>

\* st.subheader and st.markdown(generated_content)
Display ==
    /\ pc = "display"
    /\ ui' = ui \o <<Shown("subheader_table", 0, <<>>),
                     Shown("markdown", 0, generated_content)>>
    /\ pc' = "convert"
    /\ UNCHANGED <<uploaded_files, gemini, idx, all_resume_texts, combined_text,
                   prompt, generated_content, df, calls>>

\* the try/except around the conversion of the reply
ConvertTable ==
    /\ pc = "convert"
    /\ df' = convert_table(generated_content)
    /\ ui' = IF df'.built
             THEN ui \o <<Shown("subheader_formatted", 0, <<>>),
                          Shown("dataframe", 0, <<>>)>>
             ELSE Append(ui, Shown("info_no_table", 0, <<>>))
    /\ calls' = Append(calls, "parse")
    /\ pc' = "done"
    /\ UNCHANGED <<uploaded_files, gemini, idx, all_resume_texts, combined_text,
                   prompt, generated_content>>

Next ==
    \/ Start
    \/ ExtractFile
    \/ LoopEnd
    \/ BuildPrompt
    \/ CallModel
    \/ Display
    \/ ConvertTable

Spec == Init /\ [][Next]_vars

SpecTable == InitTable /\ [][Next]_vars

-----------------------------------------------------------------------------
(* What the claims speak of, stated on the inputs of the run *)

\* the PDF holds text: PyPDF2 reads it and some page yields characters
YieldsText(f) == f.readable /\ \E p \in 1..Len(f.pages) : f.pages[p] # <<>>

\* the texts of the first n uploads that hold text, in upload order
RECURSIVE ExpectedTexts(_)
ExpectedTexts(n) ==
    IF n = 0 THEN <<>>
    ELSE IF YieldsText(uploaded_files[n])
         THEN Append(ExpectedTexts(n - 1), concat(uploaded_files[n].pages))
         ELSE ExpectedTexts(n - 1)

NumFiles == Len(uploaded_files)
LoopDone == pc \in {"generate", "call", "display", "convert", "done"}
CountCalls(what) == Cardinality({k \in 1..Len(calls) : calls[k] = what})
ShownKind(kind, file) == \E k \in 1..Len(ui) : ui[k].kind = kind /\ ui[k].file = file
ShownBody(kind, body) == \E k \in 1..Len(ui) : ui[k].kind = kind /\ ui[k].body = body

\* number of places of s at which pat occurs
CountOcc(s, pat) ==
    Cardinality({i \in 1..(Len(s) - Len(pat) + 1) : SubSeq(s, i, i + Len(pat) - 1) = pat})

\* the calls of a run that reaches the model, in order
ExpectedCalls == [k \in 1..NumFiles |-> "extract"] \o <<"prompt", "llm", "parse">>

IsPrefix(s, t) == Len(s) <= Len(t) /\ SubSeq(t, 1, Len(s)) = s

-----------------------------------------------------------------------------
(* C1 *)

\* C1: a file whose extraction fails is skipped and nothing else: once the
\* loop is over every upload has been handed to the extractor, the collected
\* texts are exactly the texts of the uploads that hold text, in order, and if
\* there is at least one the model has been called, by the end of the run,
\* with the prompt built from exactly those texts.
C1_PartialSuccess ==
    /\ all_resume_texts = ExpectedTexts(idx - 1)
    /\ LoopDone =>
          /\ CountCalls("extract") = NumFiles
          /\ all_resume_texts = ExpectedTexts(NumFiles)
    /\ (pc = "done" /\ NumFiles > 0 /\ ExpectedTexts(NumFiles) # <<>>) =>
          /\ CountCalls("llm") = 1
          /\ prompt = build_prompt(py_join(SEPARATOR, ExpectedTexts(NumFiles)))
          /\ ShownKind("markdown", 0)

\* one unreadable file among three, the other two hold text, and the run
\* ended with a table built
C1_Witness ==
    /\ pc = "done"
    /\ NumFiles = 3
    /\ Cardinality({i \in 1..3 : ~uploaded_files[i].readable}) = 1
    /\ Cardinality({i \in 1..3 : YieldsText(uploaded_files[i])}) = 2
    /\ Len(all_resume_texts) = 2
    /\ CountCalls("llm") = 1
    /\ df.built

-----------------------------------------------------------------------------
(* C2 *)

\* C2: when the loop ends with no text collected, the run stops, the user is
\* told that no text is available, and the model is never called.
C2_NoTextReported ==
    (pc = "done" /\ NumFiles > 0 /\ all_resume_texts = <<>>) =>
        /\ CountCalls("llm") = 0
        /\ \/ ShownBody("markdown", NO_TEXT)
           \/ ShownKind("no_text", 0)

-----------------------------------------------------------------------------
(* C8 *)

\* C8: in a run that collected a text the calls are, in this order and once
\* each: the extraction of every upload, the prompt over the whole collected
\* list, the model, the conversion of that reply; a failure of the model ends
\* up as the text shown and is not followed by a second call.
C8_StepOrder ==
    /\ IsPrefix(calls, ExpectedCalls)
    /\ (pc = "done" /\ all_resume_texts # <<>>) => calls = ExpectedCalls
    /\ CountCalls("prompt") = 1 =>
          /\ idx = NumFiles + 1
          /\ prompt = build_prompt(py_join(SEPARATOR, all_resume_texts))
    /\ CountCalls("llm") = 1 =>
          generated_content = IF gemini.raises THEN API_ERROR ELSE gemini.text
    /\ (CountCalls("parse") = 1 /\ gemini.raises) =>
          /\ ShownBody("markdown", API_ERROR)
          /\ CountCalls("llm") = 1

\* a run in which the model failed and that went on to the conversion
C8_Witness ==
    /\ pc = "done"
    /\ gemini.raises
    /\ NumFiles >= 2
    /\ all_resume_texts # <<>>
    /\ calls = ExpectedCalls
    /\ generated_content = API_ERROR

-----------------------------------------------------------------------------
(* C10 *)

-----------------------------------------------------------------------------
(* The Markdown table the claims C3..C9 speak of, stated on the reply *)

\* the lines of the reply, the reply and each line trimmed
TrimmedLines(content) ==
    LET ls == py_split(py_strip(content, Whitespace), NL)
    IN  [i \in 1..Len(ls) |-> py_strip(ls[i], Whitespace)]

\* a trimmed line that starts and ends with a pipe
IsPipeLine(t) == t # <<>> /\ t[1] = PIPE /\ t[Len(t)] = PIPE

\* a trimmed line of pipes, hyphens, colons and whitespace only
IsSeparatorShape(t) == \A i \in 1..Len(t) : t[i] \in {PIPE, "-", ":", " "}

\* the cells of a pipe line: the two outer pipes off, split on pipes, trimmed
TableCells(t) ==
    LET parts == py_split(SubSeq(t, 2, Len(t) - 1), PIPE)
    IN  [i \in 1..Len(parts) |-> py_strip(parts[i], Whitespace)]

\* the conversion has run on the reply
Converted == pc = "done" /\ CountCalls("parse") = 1

Lines == TrimmedLines(generated_content)
HasPipeLine == \E i \in 1..Len(Lines) : IsPipeLine(Lines[i])
HeaderAt == CHOOSE h \in 1..Len(Lines) :
                IsPipeLine(Lines[h]) /\ \A j \in 1..(h - 1) : ~IsPipeLine(Lines[j])

\* the reply opens with a header line, one that names columns, and a
\* separator line
OpensWithTable ==
    /\ Len(Lines) >= 2
    /\ IsPipeLine(Lines[1])
    /\ ~IsSeparatorShape(Lines[1])
    /\ IsPipeLine(Lines[2])
    /\ IsSeparatorShape(Lines[2])

Columns == TableCells(Lines[1])

\* no line of the reply carries blank space around it or an empty cell at an
\* end: the lines on which C7 is not in question
PlainLines ==
    /\ content_lines(generated_content) = Lines
    /\ \A i \in 1..Len(Lines) :
          IsPipeLine(Lines[i]) => line_cells(Lines[i]) = TableCells(Lines[i])

\* the data lines: line k + 2 is data line k; the first that is no pipe line
\* ends the table
IsDataLine(k) == \A j \in 1..k : IsPipeLine(Lines[j + 2])
NumDataLines == Cardinality({k \in 1..(Len(Lines) - 2) : IsDataLine(k)})

PadRight(cells, n) == [c \in 1..n |-> IF c <= Len(cells) THEN cells[c] ELSE <<>>]

-----------------------------------------------------------------------------
(* C3 *)

\* C3: when no trimmed line of the reply, a reply that is not blank, starts
\* and ends with a pipe, the conversion fails: no table is built or put on the page, only the raw text.
C3_NoTableFound ==
    (Converted /\ Lines # <<<<>>>> /\ ~HasPipeLine) =>
        /\ ~df.built
        /\ ~ShownKind("dataframe", 0)
        /\ ShownBody("markdown", generated_content)

-----------------------------------------------------------------------------
(* C4 *)

\* C4: when the line right after the header line (the first pipe line, one
\* that names columns) is not made of pipes,
\* hyphens, colons and whitespace only, the conversion fails and builds no
\* table.
C4_MalformedSeparator ==
    (/\ Converted
     /\ HasPipeLine
     /\ ~IsSeparatorShape(Lines[HeaderAt])
     /\ HeaderAt < Len(Lines)
     /\ ~IsSeparatorShape(Lines[HeaderAt + 1])) =>
        /\ ~df.built
        /\ ~ShownKind("dataframe", 0)

-----------------------------------------------------------------------------
(* C5 *)

\* C5: a data row with fewer cells than there are columns is in the table as
\* its cells followed by empty strings up to the number of columns, and the
\* table is built.  Stated for the replies of plain lines.
C5_ShortRowPadded ==
    (Converted /\ OpensWithTable /\ PlainLines) =>
        \A k \in 1..(Len(Lines) - 2) :
            (IsDataLine(k) /\ Len(TableCells(Lines[k + 2])) < Len(Columns)) =>
                /\ df.built
                /\ k <= Len(df.rows)
                /\ df.rows[k] = PadRight(TableCells(Lines[k + 2]), Len(Columns))

-----------------------------------------------------------------------------
(* C6 *)

\* C6: a data row with more cells than there are columns is in the table as
\* its first cells, as many as there are columns, and the table is built.
\* Stated for the replies of plain lines.
C6_LongRowTruncated ==
    (Converted /\ OpensWithTable /\ PlainLines) =>
        \A k \in 1..(Len(Lines) - 2) :
            (IsDataLine(k) /\ Len(TableCells(Lines[k + 2])) > Len(Columns)) =>
                /\ df.built
                /\ k <= Len(df.rows)
                /\ df.rows[k] = SubSeq(TableCells(Lines[k + 2]), 1, Len(Columns))

-----------------------------------------------------------------------------
(* C7 *)

\* C7: for a well-formed table (header, separator, then only data lines with
\* exactly as many cells as columns) the table built has the trimmed header
\* cells as columns, in order, and one row per data line, in order, of the
\* trimmed cells of that line.
C7_WellFormedTable ==
    (/\ Converted
     /\ OpensWithTable
     /\ \A k \in 1..(Len(Lines) - 2) :
           IsDataLine(k) /\ Len(TableCells(Lines[k + 2])) = Len(Columns)) =>
        /\ df.built
        /\ df.columns = Columns
        /\ df.rows = [k \in 1..(Len(Lines) - 2) |-> TableCells(Lines[k + 2])]

-----------------------------------------------------------------------------
(* C9 *)

\* C9: the rows end at the first line after the separator that is blank or
\* no pipe line: that line and the lines after it give no row, and the table
\* of the rows before it is still built.  Stated for the replies of plain
\* lines.
C9_RowsStopAtNonTableLine ==
    (/\ Converted
     /\ OpensWithTable
     /\ PlainLines
     /\ NumDataLines < Len(Lines) - 2) =>
        /\ df.built
        /\ Len(df.rows) = NumDataLines

====
